---- MODULE Spec2Model ----
(***************************************************************************)
(* Model of gofsutil_mount_linux.go: the disk format probe, the            *)
(* format-and-mount decision procedure, the bind-mount helper and the      *)
(* consistent mount-table snapshot (getMounts / readProcMounts).           *)
(*                                                                         *)
(* Strings are sequences of one-character (or one-token) strings, so that  *)
(* TrimSpace, concatenation and fmt.Sprintf/Errorf are computed and not    *)
(* assumed.  An error value is its message; nil is the empty message.      *)
(***************************************************************************)
EXTENDS Integers, Sequences, FiniteSets, TLC

\* ------------------------------------------------------------------ bounds

\* Longest option list a caller passes.
MaxOpts == 2
\* Most rows the mount table holds.
MaxTableLen == 1
\* Width in bits of the modelled fingerprint (uint32 in the source).
HashBits == 3

\* --------------------------------------------------------- program constants

procMountsPath == <<"/proc/self/mountinfo">>
procMountsRetries == 3
bindRemountOpts == <<"remount">>

\* ------------------------------------------------------------------ strings

Nil == <<>>
Ext4 == <<"e", "x", "t", "4">>
Ext3 == <<"e", "x", "t", "3">>
Xfs == <<"x", "f", "s">>
Source == <<"/dev/sdb">>
Target == <<"/mnt/vol">>

\* The single threads of the host program that call into the package.
Callers == {1, 2}

\* Filesystem types a caller may request ("" = none requested).
ReqTypes == {Nil, Ext4, Ext3, Xfs}
\* What the device may really carry ("" = no filesystem).
DiskTypes == {Nil, Ext4, Xfs}
\* Mount options a caller may pass.
Options == {"ro", "noatime"}

RECURSIVE SeqsUpTo(_, _)
SeqsUpTo(S, n) ==
  IF n = 0 THEN {<<>>}
  ELSE LET shorter == SeqsUpTo(S, n - 1)
       IN shorter \cup {Append(s, x) : s \in shorter, x \in S}

OptLists == SeqsUpTo(Options, MaxOpts)

IsSpace(ch) == ch \in {" ", "\n", "\t", "\r"}

RECURSIVE TrimLeft(_)
TrimLeft(s) ==
  IF s # <<>> /\ IsSpace(Head(s)) THEN TrimLeft(Tail(s)) ELSE s

RECURSIVE TrimRight(_)
TrimRight(s) ==
  IF s # <<>> /\ IsSpace(s[Len(s)]) THEN TrimRight(SubSeq(s, 1, Len(s) - 1)) ELSE s

\* strings.TrimSpace
TrimSpace(s) == TrimRight(TrimLeft(s))

\* s occurs in t as a contiguous substring (strings.Contains(t, s)).
Contains(t, s) ==
  \E i \in 1..(Len(t) - Len(s) + 1) : SubSeq(t, i, i + Len(s) - 1) = s

\* ------------------------------------------------------------------ state

VARIABLES
  active,          \* the callers that run in this specification
  disk,            \* the filesystem type the device really carries
  table,           \* current content of the mount table (sequence of rows)
  op,              \* per caller: the operation it runs
  args,            \* per caller: the fsType and opts the operation was called with
  pc,              \* per caller: position in the operation it runs
  fsType,          \* per caller: formatAndMount's fsType argument/local
  opts,            \* per caller: the opts argument/local
  existingFormat,  \* per caller: formatAndMount's existingFormat
  err,             \* per caller: formatAndMount's err after the probe
  calls,           \* per caller: external invocations made by the current call
  ret,             \* per caller: the error the operation returned
  hash1,           \* per caller: getMounts' hash1
  iter,            \* per caller: getMounts' loop counter i (-1: before the loop)
  rd,              \* per caller: what the running readProcMounts produced
  ioErr,           \* per caller: the I/O error a read of the current getMounts met
  retMps,          \* per caller: the entries getMounts returned
  reads,           \* per caller: contents seen by the reads of the current getMounts
  changed,         \* per caller: the table changed since the first read of the
                   \* current getMounts
  opened,          \* per caller: handles opened by the current getMounts
  closed           \* per caller: handles closed by the current getMounts

vars == <<active, disk, table, op, args, pc, fsType, opts, existingFormat, err, calls,
          ret, hash1, iter, rd, ioErr, retMps, reads, changed, opened, closed>>

envVars == <<active, disk, table>>
fmVars == <<fsType, existingFormat, err>>
NoArgs == [fsType |-> Nil, opts |-> <<>>]
gmVars == <<hash1, iter, rd, ioErr, retMps, reads, changed, opened, closed>>

\* ------------------------------------------------- external collaborators

\* One external invocation as the callee sees it; disk is what the device
\* really carried when the invocation was made.
Invocation(cmd, a, t, o, out, e, d) ==
  [cmd |-> cmd, args |-> a, fsType |-> t, opts |-> o, out |-> out, err |-> e,
   disk |-> d]

\* What exec.Command("blkid", ...).CombinedOutput() can yield on a device
\* that carries d: the type on success, nothing on a blank device, and a
\* non-zero exit (blank device, unreadable device, missing binary) with
\* whatever the utility printed.
BlkidOutcomes(d) ==
  (IF d # Nil
     THEN {[out |-> d \o <<"\n">>, err |-> Nil]}
     ELSE {[out |-> <<>>, err |-> Nil], [out |-> <<" ", "\n">>, err |-> Nil]})
  \cup {[out |-> <<>>, err |-> <<"exit status 2">>],
        [out |-> <<"blkid: permission denied", "\n">>, err |-> <<"exit status 2">>],
        [out |-> <<>>, err |-> <<"exec: blkid: executable file not found">>]}

\* exec.Command(mkfsCmd, args...).Run()
MkfsErrs == {Nil, <<"exit status 1">>}

\* The mount primitive (fs.mount / fs.doMount): nil, or the utility's error.
MountErrs == {<<"mount failed: exit status 32">>, <<"mount failed: exit status 1">>}
MountOutcomes == {Nil} \cup MountErrs

\* os.Open and the read of the table: nil, or an I/O error.
OpenErrs == {Nil, <<"open /proc/self/mountinfo: too many open files">>}
ReadErrs == {Nil, <<"read /proc/self/mountinfo: input/output error">>}

\* ------------------------------------------------------------ getDiskFormat

\* Variant: a failed blkid run is surfaced as an error.
getDiskFormat_ErrOnFailure(buf, e) ==
  IF e # Nil
    THEN [fsType |-> Nil, err |-> e]
    ELSE [fsType |-> TrimSpace(buf), err |-> Nil]

\* getDiskFormat applied to the output and error of the blkid run.
getDiskFormat(buf, e) ==
  IF e # Nil
    THEN [fsType |-> Nil, err |-> Nil]
    ELSE LET t == TrimSpace(buf)
         IN IF t # Nil THEN [fsType |-> t, err |-> Nil]
                       ELSE [fsType |-> Nil, err |-> Nil]

blkidArgs == << <<"-s">>, <<"TYPE">>, <<"-o">>, <<"value">>, Source >>

\* ----------------------------------------------------------- formatAndMount

\* Variant: "defaults" is put in front of the caller's options.
appendDefaults_Prepend(o) == <<"defaults">> \o o

\* opts = append(opts, "defaults")
appendDefaults(o) == Append(o, "defaults")

\* Variant: no default replaces an empty requested type.
defaultFsType_None(t) == t

\* Use 'ext4' as the default.
defaultFsType(t) == IF Len(t) = 0 THEN Ext4 ELSE t

mkfsArgs(t) ==
  IF t = Ext4 \/ t = Ext3 THEN << <<"-F">>, Source >> ELSE << Source >>

\* fmt.Sprintf("mkfs.%s", fsType)
mkfsCmd(t) == <<"mkfs.">> \o t

\* fmt.Errorf("failed to mount volume as %q; already contains %s: error: %v", ...)
mismatchErr(t, existing, mountErr) ==
  <<"failed to mount volume as ", "\"">> \o t \o <<"\"", "; already contains ">>
    \o existing \o <<": error: ">> \o mountErr

\* Variant: the mount error is never re-classified.
mountExistingResult_Raw(t, existing, mountErr) == mountErr

\* Variant: the test for an empty requested type is missing.
mountExistingResult_NoEmptyCheck(t, existing, mountErr) ==
  IF mountErr = Nil THEN Nil
  ELSE IF t = existing THEN mountErr
  ELSE mismatchErr(t, existing, mountErr)

\* What formatAndMount returns after the mount of an already formatted disk.
mountExistingResult(t, existing, mountErr) ==
  IF mountErr = Nil THEN Nil
  ELSE IF Len(t) = 0 \/ t = existing THEN mountErr
  ELSE mismatchErr(t, existing, mountErr)

\* Variant: the disk is formatted whatever the probe reported.
afterProbe_AlwaysFormat(existing) == "format"

\* if existingFormat == "" { format } else { mount }
afterProbe(existing) == IF existing = Nil THEN "format" ELSE "mountExisting"

\* A caller enters formatAndMount(source, target, t, o...).
CallFormatAndMount(c) ==
  /\ c \in active /\ pc[c] = "idle"
  /\ \E t \in ReqTypes, o \in OptLists :
       /\ args' = [args EXCEPT ![c] = [fsType |-> t, opts |-> o]]
       /\ fsType' = [fsType EXCEPT ![c] = t]
       /\ opts' = [opts EXCEPT ![c] = appendDefaults(o)]
  /\ op' = [op EXCEPT ![c] = "formatAndMount"]
  /\ pc' = [pc EXCEPT ![c] = "probe"]
  /\ UNCHANGED <<envVars, existingFormat, err, calls, ret, gmVars>>

\* existingFormat, err := fs.getDiskFormat(ctx, source), and the branch on it.
Probe(c) ==
  /\ pc[c] = "probe"
  /\ \E b \in BlkidOutcomes(disk) :
       LET r == getDiskFormat(b.out, b.err)
       IN /\ calls' = [calls EXCEPT ![c] =
                 Append(@, Invocation(<<"blkid">>, blkidArgs, Nil, <<>>, b.out, b.err, disk))]
          /\ existingFormat' = [existingFormat EXCEPT ![c] = r.fsType]
          /\ err' = [err EXCEPT ![c] = r.err]
          /\ IF r.err # Nil
               THEN /\ pc' = [pc EXCEPT ![c] = "done"]
                    /\ ret' = [ret EXCEPT ![c] = r.err]
               ELSE /\ pc' = [pc EXCEPT ![c] = afterProbe(r.fsType)]
                    /\ ret' = ret
  /\ UNCHANGED <<envVars, op, args, fsType, opts, gmVars>>

\* Variant: the error of the mkfs run is wrapped in a message of its own.
formatErr_Wrapped(e) == <<"format failed: ">> \o e

\* if err := exec.Command(mkfsCmd, args...).Run(); err != nil { return err }
formatErr(e) == e

\* Variant: the mount follows the mkfs run whatever its exit status.
afterFormat_NoCheck(e) == "mountFormatted"

\* A failed mkfs run returns; a successful one goes on to the mount.
afterFormat(e) == IF e # Nil THEN "done" ELSE "mountFormatted"

\* The unformatted branch up to the mkfs run.
Format(c) ==
  /\ pc[c] = "format"
  /\ LET t == defaultFsType(fsType[c])
     IN \E e \in MkfsErrs :
          /\ fsType' = [fsType EXCEPT ![c] = t]
          /\ calls' = [calls EXCEPT ![c] =
                Append(@, Invocation(mkfsCmd(t), mkfsArgs(t), t, <<>>, <<>>, e, disk))]
          /\ pc' = [pc EXCEPT ![c] = afterFormat(e)]
          /\ IF e # Nil
               THEN /\ ret' = [ret EXCEPT ![c] = formatErr(e)]
                    /\ disk' = disk
               ELSE /\ ret' = ret
                    /\ disk' = t
  /\ UNCHANGED <<active, table, op, args, opts, existingFormat, err, gmVars>>

\* return fs.mount(ctx, source, target, fsType, opts...) after the format.
MountFormatted(c) ==
  /\ pc[c] = "mountFormatted"
  /\ \E e \in MountOutcomes :
       /\ calls' = [calls EXCEPT ![c] =
             Append(@, Invocation(<<"mount">>, <<Source, Target>>, fsType[c], opts[c],
                                  <<>>, e, disk))]
       /\ ret' = [ret EXCEPT ![c] = e]
  /\ pc' = [pc EXCEPT ![c] = "done"]
  /\ UNCHANGED <<envVars, op, args, fmVars, opts, gmVars>>

\* Variant: an already formatted disk is mounted as the type blkid detected.
mountExistingType_Detected(t, existing) == existing

\* The type handed to fs.mount for an already formatted disk: fsType as given.
mountExistingType(t, existing) == t

\* The mount of an already formatted disk and the classification of its error.
MountExisting(c) ==
  /\ pc[c] = "mountExisting"
  /\ \E e \in MountOutcomes :
       /\ calls' = [calls EXCEPT ![c] =
             Append(@, Invocation(<<"mount">>, <<Source, Target>>,
                                  mountExistingType(fsType[c], existingFormat[c]), opts[c],
                                  <<>>, e, disk))]
       /\ ret' = [ret EXCEPT ![c] = mountExistingResult(fsType[c], existingFormat[c], e)]
  /\ pc' = [pc EXCEPT ![c] = "done"]
  /\ UNCHANGED <<envVars, op, args, fmVars, opts, gmVars>>

\* ---------------------------------------------------------------- bindMount

\* The options of the first doMount: "bind".
bindOpts == <<"bind">>

\* Variant: the second doMount repeats the bind option.
remountOpts_WithBind(o) == <<"bind">> \o o

\* The options of the second doMount: opts...
remountOpts(o) == o

\* Variant: the error of the bind step is not checked.
afterBind_NoCheck(e) == "remount"

\* if err != nil { return err }
afterBind(e) == IF e # Nil THEN "done" ELSE "remount"

\* A caller enters bindMount(source, target, o...).
CallBindMount(c) ==
  /\ c \in active /\ pc[c] = "idle"
  /\ \E o \in OptLists :
       /\ args' = [args EXCEPT ![c] = [fsType |-> Nil, opts |-> o]]
       /\ opts' = [opts EXCEPT ![c] = o]
  /\ op' = [op EXCEPT ![c] = "bindMount"]
  /\ pc' = [pc EXCEPT ![c] = "bind"]
  /\ UNCHANGED <<envVars, fmVars, calls, ret, gmVars>>

\* err := fs.doMount(ctx, "mount", source, target, "", "bind")
Bind(c) ==
  /\ pc[c] = "bind"
  /\ \E e \in MountOutcomes :
       /\ calls' = [calls EXCEPT ![c] =
             Append(@, Invocation(<<"mount">>, <<Source, Target>>, Nil, bindOpts,
                                  <<>>, e, disk))]
       /\ pc' = [pc EXCEPT ![c] = afterBind(e)]
       /\ ret' = [ret EXCEPT ![c] = e]
  /\ UNCHANGED <<envVars, op, args, fmVars, opts, gmVars>>

\* return fs.doMount(ctx, "mount", source, target, "", opts...)
Remount(c) ==
  /\ pc[c] = "remount"
  /\ \E e \in MountOutcomes :
       /\ calls' = [calls EXCEPT ![c] =
             Append(@, Invocation(<<"mount">>, <<Source, Target>>, Nil,
                                  remountOpts(opts[c]), <<>>, e, disk))]
       /\ ret' = [ret EXCEPT ![c] = e]
  /\ pc' = [pc EXCEPT ![c] = "done"]
  /\ UNCHANGED <<envVars, op, args, fmVars, opts, gmVars>>

\* ----------------------------------------------------------- readProcMounts

\* The rows a mount table is made of: 0 is a malformed row, 1 a well-formed one.
Lines == {0, 1}

\* The contents the mount table may have.
Tables == SeqsUpTo(Lines, MaxTableLen)

\* The line parser's record of one well-formed row.
Info(line) == [Device |-> <<"/dev/sd", ToString(line)>>, Path |-> <<"/mnt/", ToString(line)>>]

\* The entries of a content: malformed rows (line 0) yield none.
RECURSIVE ParseEntries(_)
ParseEntries(content) ==
  IF content = <<>> THEN <<>>
  ELSE IF Head(content) = 0 THEN ParseEntries(Tail(content))
  ELSE <<Info(Head(content))>> \o ParseEntries(Tail(content))

RECURSIVE Pow2(_)
Pow2(n) == IF n = 0 THEN 1 ELSE 2 * Pow2(n - 1)

\* The fingerprint of the raw rows, an unsigned integer of HashBits bits.
RECURSIVE HashFrom(_, _)
HashFrom(h, content) ==
  IF content = <<>> THEN h
  ELSE HashFrom((h * 3 + Head(content) + 1) % Pow2(HashBits), Tail(content))

Fingerprint(content) == HashFrom(1, content)

\* ReadProcMountsFrom(ctx, file, quick, ...): entries (none when quick), the
\* fingerprint, and the I/O error e of the read.
ReadProcMountsFrom(content, quick, e) ==
  IF e # Nil THEN [mps |-> Nil, hash |-> 0, err |-> e]
  ELSE [mps |-> IF quick THEN Nil ELSE ParseEntries(content),
        hash |-> Fingerprint(content), err |-> Nil]

\* The result of readProcMounts when os.Open fails.
openFailed(e) == [mps |-> Nil, hash |-> 0, err |-> e]

\* ---------------------------------------------------------------- getMounts

\* Variant: no read asks for entries.
infoArg_Never(i) == FALSE

\* The info argument of the read the caller is in: false before the loop.
infoArg(i) == i >= 0

inconsistentErr ==
  <<"failed to get a consistent snapshot of ">> \o procMountsPath
    \o <<" after ", ToString(procMountsRetries), " tries">>

\* hash1 == hash2
sameHash(h1, h2) == h1 = h2

\* Variant: the loop runs once more.
loopCond_OffByOne(i) == i <= procMountsRetries

\* i < procMountsRetries
loopCond(i) == i < procMountsRetries

\* Variant: hash1 keeps the fingerprint of the first read (hash1 = hash2 is
\* missing).
getMountsStep_StaleHash1(i, h1, r) ==
  IF r.err # Nil
    THEN [done |-> TRUE, mps |-> Nil, err |-> r.err, hash1 |-> h1, iter |-> i]
  ELSE IF i >= 0 /\ sameHash(h1, r.hash)
    THEN [done |-> TRUE, mps |-> r.mps, err |-> Nil, hash1 |-> h1, iter |-> i]
  ELSE IF loopCond(i + 1)
    THEN [done |-> FALSE, mps |-> Nil, err |-> Nil,
          hash1 |-> IF i = -1 THEN r.hash ELSE h1, iter |-> i + 1]
  ELSE [done |-> TRUE, mps |-> Nil, err |-> inconsistentErr, hash1 |-> h1,
        iter |-> i + 1]

\* Variant: a failed read is retried like a changed fingerprint.
getMountsStep_RetryOnError(i, h1, r) ==
  IF (r.err = Nil /\ i >= 0) /\ sameHash(h1, r.hash)
    THEN [done |-> TRUE, mps |-> r.mps, err |-> Nil, hash1 |-> h1, iter |-> i]
  ELSE IF loopCond(i + 1)
    THEN [done |-> FALSE, mps |-> Nil, err |-> Nil, hash1 |-> r.hash, iter |-> i + 1]
  ELSE [done |-> TRUE, mps |-> Nil, err |-> inconsistentErr, hash1 |-> r.hash,
        iter |-> i + 1]

\* getMounts from the return of a readProcMounts (r) to its next read or its
\* return: i = -1 is the read before the loop.
getMountsStep(i, h1, r) ==
  IF r.err # Nil
    THEN [done |-> TRUE, mps |-> Nil, err |-> r.err, hash1 |-> h1, iter |-> i]
  ELSE IF i >= 0 /\ sameHash(h1, r.hash)
    THEN [done |-> TRUE, mps |-> r.mps, err |-> Nil, hash1 |-> h1, iter |-> i]
  ELSE IF loopCond(i + 1)
    THEN [done |-> FALSE, mps |-> Nil, err |-> Nil, hash1 |-> r.hash, iter |-> i + 1]
  ELSE [done |-> TRUE, mps |-> Nil, err |-> inconsistentErr, hash1 |-> r.hash,
        iter |-> i + 1]

NoRead == [mps |-> Nil, hash |-> 0, err |-> Nil]

\* A caller enters getMounts.
CallGetMounts(c) ==
  /\ c \in active /\ pc[c] = "idle"
  /\ op' = [op EXCEPT ![c] = "getMounts"]
  /\ pc' = [pc EXCEPT ![c] = "open"]
  /\ UNCHANGED <<envVars, args, fmVars, opts, calls, ret, gmVars>>

\* getMounts continues from the result r of a readProcMounts.
Continue(c, r) ==
  LET n == getMountsStep(iter[c], hash1[c], r)
  IN /\ hash1' = [hash1 EXCEPT ![c] = n.hash1]
     /\ iter' = [iter EXCEPT ![c] = n.iter]
     /\ retMps' = [retMps EXCEPT ![c] = n.mps]
     /\ ret' = [ret EXCEPT ![c] = n.err]
     /\ pc' = [pc EXCEPT ![c] = IF n.done THEN "done" ELSE "open"]

\* file, err := os.Open(path); a failure returns from readProcMounts at once.
Open(c) ==
  /\ pc[c] = "open"
  /\ \E e \in OpenErrs :
       IF e # Nil
         THEN /\ Continue(c, openFailed(e))
              /\ ioErr' = [ioErr EXCEPT ![c] = e]
              /\ UNCHANGED <<rd, opened>>
         ELSE /\ opened' = [opened EXCEPT ![c] = @ + 1]
              /\ pc' = [pc EXCEPT ![c] = "read"]
              /\ UNCHANGED <<hash1, iter, retMps, ret, rd, ioErr>>
  /\ UNCHANGED <<envVars, op, args, fmVars, opts, calls, reads, changed, closed>>

\* ReadProcMountsFrom(ctx, file, !info, ...) on the table as it is now.
Read(c) ==
  /\ pc[c] = "read"
  /\ \E e \in ReadErrs :
       /\ rd' = [rd EXCEPT ![c] = ReadProcMountsFrom(table, ~infoArg(iter[c]), e)]
       /\ reads' = [reads EXCEPT ![c] =
             Append(@, [content |-> table, failed |-> e # Nil, changed |-> changed[c]])]
       /\ ioErr' = [ioErr EXCEPT ![c] = e]
  /\ pc' = [pc EXCEPT ![c] = "close"]
  /\ UNCHANGED <<envVars, op, args, fmVars, opts, calls, ret, hash1, iter, retMps,
                 changed, opened, closed>>

\* Variant: the handle is closed only after a read that succeeded.
deferClose_OnSuccessOnly(n, r) == IF r.err = Nil THEN n + 1 ELSE n

\* defer file.Close(): the handles closed once readProcMounts returns r.
deferClose(n, r) == n + 1

\* defer file.Close(), then getMounts goes on with what the read returned.
Close(c) ==
  /\ pc[c] = "close"
  /\ closed' = [closed EXCEPT ![c] = deferClose(@, rd[c])]
  /\ Continue(c, rd[c])
  /\ rd' = [rd EXCEPT ![c] = NoRead]
  /\ UNCHANGED <<envVars, op, args, fmVars, opts, calls, reads, changed, opened, ioErr>>

\* The kernel changes the mount table (a mount or unmount anywhere on the host).
TableChange ==
  /\ \E t \in Tables \ {table} : table' = t
  /\ changed' = [c \in Callers |->
       changed[c] \/ (pc[c] \in {"open", "read", "close"} /\ Len(reads[c]) >= 1)]
  /\ UNCHANGED <<active, disk, op, args, pc, fmVars, opts, calls, ret, hash1, iter, rd,
                 ioErr, retMps, reads, opened, closed>>

\* ------------------------------------------------------------ specification

\* The caller takes the result; its next call starts from fresh locals.
Return(c) ==
  /\ pc[c] = "done"
  /\ op' = [op EXCEPT ![c] = "none"]
  /\ args' = [args EXCEPT ![c] = NoArgs]
  /\ ioErr' = [ioErr EXCEPT ![c] = Nil]
  /\ pc' = [pc EXCEPT ![c] = "idle"]
  /\ fsType' = [fsType EXCEPT ![c] = Nil]
  /\ opts' = [opts EXCEPT ![c] = <<>>]
  /\ existingFormat' = [existingFormat EXCEPT ![c] = Nil]
  /\ err' = [err EXCEPT ![c] = Nil]
  /\ calls' = [calls EXCEPT ![c] = <<>>]
  /\ ret' = [ret EXCEPT ![c] = Nil]
  /\ hash1' = [hash1 EXCEPT ![c] = 0]
  /\ iter' = [iter EXCEPT ![c] = -1]
  /\ rd' = [rd EXCEPT ![c] = NoRead]
  /\ retMps' = [retMps EXCEPT ![c] = Nil]
  /\ reads' = [reads EXCEPT ![c] = <<>>]
  /\ changed' = [changed EXCEPT ![c] = FALSE]
  /\ opened' = [opened EXCEPT ![c] = 0]
  /\ closed' = [closed EXCEPT ![c] = 0]
  /\ UNCHANGED envVars

InitLocals ==
  /\ op = [c \in Callers |-> "none"]
  /\ args = [c \in Callers |-> NoArgs]
  /\ ioErr = [c \in Callers |-> Nil]
  /\ pc = [c \in Callers |-> "idle"]
  /\ fsType = [c \in Callers |-> Nil]
  /\ opts = [c \in Callers |-> <<>>]
  /\ existingFormat = [c \in Callers |-> Nil]
  /\ err = [c \in Callers |-> Nil]
  /\ calls = [c \in Callers |-> <<>>]
  /\ ret = [c \in Callers |-> Nil]
  /\ hash1 = [c \in Callers |-> 0]
  /\ iter = [c \in Callers |-> -1]
  /\ rd = [c \in Callers |-> NoRead]
  /\ retMps = [c \in Callers |-> Nil]
  /\ reads = [c \in Callers |-> <<>>]
  /\ changed = [c \in Callers |-> FALSE]
  /\ opened = [c \in Callers |-> 0]
  /\ closed = [c \in Callers |-> 0]

\* One caller at a time.
Init ==
  /\ active = {1}
  /\ disk \in DiskTypes
  /\ table \in Tables
  /\ InitLocals

Next ==
  \/ \E c \in Callers : CallFormatAndMount(c)
  \/ \E c \in Callers : Probe(c)
  \/ \E c \in Callers : Format(c)
  \/ \E c \in Callers : MountFormatted(c)
  \/ \E c \in Callers : MountExisting(c)
  \/ \E c \in Callers : CallBindMount(c)
  \/ \E c \in Callers : Bind(c)
  \/ \E c \in Callers : Remount(c)
  \/ \E c \in Callers : CallGetMounts(c)
  \/ \E c \in Callers : Open(c)
  \/ \E c \in Callers : Read(c)
  \/ \E c \in Callers : Close(c)
  \/ \E c \in Callers : Return(c)
  \/ TableChange

Spec == Init /\ [][Next]_vars

\* Two callers run formatAndMount against the same, initially blank device;
\* the steps of the two invocations interleave freely (no lock is taken).
\* The callers pass no mount options of their own.
InitConcurrent ==
  /\ active = Callers
  /\ disk = Nil
  /\ table = <<>>
  /\ InitLocals

NextFormatAndMount ==
  \/ \E c \in Callers : CallFormatAndMount(c) /\ args'[c].opts = <<>>
  \/ \E c \in Callers : Probe(c)
  \/ \E c \in Callers : Format(c)
  \/ \E c \in Callers : MountFormatted(c)
  \/ \E c \in Callers : MountExisting(c)
  \/ \E c \in Callers : Return(c)

SpecConcurrent == InitConcurrent /\ [][NextFormatAndMount]_vars

\* getMounts alone, on a table the kernel keeps changing.
NextGetMounts ==
  \/ \E c \in Callers : CallGetMounts(c)
  \/ \E c \in Callers : Open(c)
  \/ \E c \in Callers : Read(c)
  \/ \E c \in Callers : Close(c)
  \/ \E c \in Callers : Return(c)
  \/ TableChange

\* Every blocking step of a running getMounts returns: the calling thread is
\* scheduled and the open, the read and the close of a procfs file complete.
\* Nothing is assumed of the kernel's changes to the table.
LiveGetMounts ==
  /\ Init
  /\ [][NextGetMounts]_vars
  /\ \A c \in Callers : WF_vars(Open(c)) /\ WF_vars(Read(c)) /\ WF_vars(Close(c))

\* ------------------------------------------------------------------ claims

IsMkfs(inv) == Head(inv.cmd) = "mkfs."
IsMount(inv) == inv.cmd = <<"mount">>
IsBlkid(inv) == inv.cmd = <<"blkid">>

InFormatAndMount(c) == op[c] = "formatAndMount"
InBindMount(c) == op[c] = "bindMount"
InGetMounts(c) == op[c] = "getMounts"

\* The formatAndMount of c has run the probe.
Probed(c) == InFormatAndMount(c) /\ Len(calls[c]) >= 1

\* The formatAndMount of c has returned and its last step was a failed mount.
MountFailed(c) ==
  /\ InFormatAndMount(c) /\ pc[c] = "done"
  /\ Len(calls[c]) >= 2
  /\ IsMount(calls[c][Len(calls[c])])
  /\ calls[c][Len(calls[c])].err # Nil

LastCall(c) == calls[c][Len(calls[c])]

\* C1: when the probe reports a non-empty filesystem type, the invocation
\* never runs the format utility, whatever type was requested and whether
\* the mount succeeds or fails.
C1_NoFormatOnReportedFilesystem ==
  \A c \in Callers :
    (Probed(c) /\ existingFormat[c] # Nil)
      => \A i \in 1..Len(calls[c]) : ~IsMkfs(calls[c][i])

\* A formatted disk, requested with another type, whose mount failed.
C1_Witness ==
  \E c \in Callers :
    /\ InFormatAndMount(c) /\ pc[c] = "done"
    /\ existingFormat[c] = Xfs /\ fsType[c] = Ext4
    /\ ret[c] # Nil /\ Len(calls[c]) = 2

\* C2: the format utility is never run on a device that really carries a
\* filesystem, whatever the probe utility's exit status.
C2_NeverFormatsRealFilesystem ==
  \A c \in Callers :
    \A i \in 1..Len(calls[c]) : IsMkfs(calls[c][i]) => calls[c][i].disk = Nil

SuccessfulGetMounts(c) == InGetMounts(c) /\ pc[c] = "done" /\ ret[c] = Nil

LastRead(c) == reads[c][Len(reads[c])]

\* C3 as stated: a successful getMounts returns the parse of a content that
\* was the table's content throughout the call, from its first read to the
\* read whose entries it returns.
C3_TableUnchangedDuringCall ==
  \A c \in Callers :
    SuccessfulGetMounts(c)
      => /\ ~LastRead(c).changed
         /\ retMps[c] = ParseEntries(LastRead(c).content)

\* C3 amended: a successful getMounts returns the parse of the content its
\* last read saw, and the read before it saw a content of the same
\* fingerprint; the table may have changed during the call.
C3_LastTwoReadsAgree ==
  \A c \in Callers :
    SuccessfulGetMounts(c)
      => /\ Len(reads[c]) >= 2
         /\ ~LastRead(c).failed
         /\ retMps[c] = ParseEntries(LastRead(c).content)
         /\ Fingerprint(LastRead(c).content)
              = Fingerprint(reads[c][Len(reads[c]) - 1].content)

\* A successful getMounts of three reads during which the table changed.
C3_Witness ==
  \E c \in Callers :
    /\ SuccessfulGetMounts(c)
    /\ Len(reads[c]) = 3
    /\ LastRead(c).changed
    /\ retMps[c] # <<>>

IOErrs == (OpenErrs \cup ReadErrs) \ {Nil}

\* The getMounts of c has returned and none of its reads failed.
FinishedWithoutIOError(c) ==
  InGetMounts(c) /\ pc[c] = "done" /\ ret[c] \notin IOErrs

SameContentOnEveryRead(c) ==
  \A i, j \in 1..Len(reads[c]) : reads[c][i].content = reads[c][j].content

\* C4: if every read of a getMounts call sees the same content and none
\* fails, the call succeeds in the first loop iteration, after exactly two
\* reads, and returns the parsed entries of that content.
C4_SnapshotDeterminism ==
  \A c \in Callers :
    (FinishedWithoutIOError(c) /\ SameContentOnEveryRead(c))
      => /\ ret[c] = Nil
         /\ Len(reads[c]) = 2
         /\ iter[c] = 0
         /\ retMps[c] = ParseEntries(reads[c][1].content)

\* A stable table with one well-formed row, returned after two reads.
C4_Witness ==
  \E c \in Callers :
    /\ SuccessfulGetMounts(c)
    /\ Len(reads[c]) = 2
    /\ reads[c][1].content = <<1>> /\ reads[c][2].content = <<1>>
    /\ retMps[c] = <<Info(1)>>

DiffersOnEveryRead(c) ==
  \A i \in 1..(Len(reads[c]) - 1) :
    /\ reads[c][i].content # reads[c][i + 1].content
    /\ Fingerprint(reads[c][i].content) # Fingerprint(reads[c][i + 1].content)

\* C5: if content and fingerprint differ between every two consecutive
\* reads, getMounts returns no entries: it makes procMountsRetries loop
\* iterations after the first read and returns the inconsistent-snapshot
\* error with nil entries.
C5_RetryBound ==
  \A c \in Callers :
    (FinishedWithoutIOError(c) /\ DiffersOnEveryRead(c))
      => /\ ret[c] = inconsistentErr
         /\ retMps[c] = Nil
         /\ Len(reads[c]) = procMountsRetries + 1
         /\ iter[c] = procMountsRetries

\* Four reads, each different from the one before, ending in the error.
C5_Witness ==
  \E c \in Callers :
    /\ InGetMounts(c) /\ pc[c] = "done"
    /\ DiffersOnEveryRead(c)
    /\ Len(reads[c]) = 4
    /\ Contains(ret[c], <<"failed to get a consistent snapshot of ">>)

\* The probe reported a type, another type was requested, the mount failed.
MismatchCase(c) ==
  /\ MountFailed(c)
  /\ existingFormat[c] # Nil
  /\ fsType[c] # Nil
  /\ fsType[c] # existingFormat[c]

MismatchWording == <<"; already contains ">>

\* C6: when the probe reports E, a different non-empty R is requested and
\* the mount fails, formatAndMount returns an error that names R and E and
\* embeds the mount error, not the raw mount error.
C6_MismatchClassification ==
  \A c \in Callers :
    MismatchCase(c)
      => /\ ret[c] # LastCall(c).err
         /\ Contains(ret[c], <<"\"">> \o fsType[c] \o <<"\"">>)
         /\ Contains(ret[c], MismatchWording \o existingFormat[c])
         /\ Contains(ret[c], LastCall(c).err)

\* Probe says xfs, ext4 was requested, the mount failed.
C6_Witness ==
  \E c \in Callers :
    /\ MismatchCase(c)
    /\ existingFormat[c] = Xfs /\ fsType[c] = Ext4
    /\ LastCall(c).err = <<"mount failed: exit status 32">>

\* C7: a type-mismatch error is returned only in the mismatch case; every
\* other failed mount (no type requested, the requested type is the probed
\* one, or the disk was just formatted) returns the mount error unchanged.
C7_GenuineMountErrorUnchanged ==
  \A c \in Callers :
    /\ (InFormatAndMount(c) /\ pc[c] = "done" /\ Contains(ret[c], MismatchWording))
         => MismatchCase(c)
    /\ (MountFailed(c) /\ ~MismatchCase(c))
         => /\ ret[c] = LastCall(c).err
            /\ ret[c] \in MountErrs

\* Probe says xfs, no type was requested, the mount failed.
C7_Witness ==
  \E c \in Callers :
    /\ MountFailed(c)
    /\ existingFormat[c] = Xfs /\ fsType[c] = Nil
    /\ ret[c] = <<"mount failed: exit status 32">>

AllSpace(s) == \A i \in 1..Len(s) : IsSpace(s[i])

\* C8: getDiskFormat never returns an error: a failed blkid run, or one that
\* printed only white space, yields ("", nil); a type is returned only from
\* a successful run, and is its output without the surrounding white space.
\* formatAndMount therefore never returns right after the probe.
C8_ProbeNeverErrors ==
  \A c \in Callers :
    Probed(c)
      => LET b == calls[c][1]
         IN /\ IsBlkid(b)
            /\ err[c] = Nil
            /\ ~(pc[c] = "done" /\ Len(calls[c]) = 1)
            /\ (b.err # Nil \/ AllSpace(b.out)) => existingFormat[c] = Nil
            /\ existingFormat[c] # Nil
                 => /\ b.err = Nil
                    /\ ~IsSpace(Head(existingFormat[c]))
                    /\ ~IsSpace(existingFormat[c][Len(existingFormat[c])])
                    /\ \E pre, post \in {<<>>, <<"\n">>, <<" ">>, <<" ", "\n">>} :
                         b.out = pre \o existingFormat[c] \o post

\* A blkid run that failed after printing a diagnostic, on a formatted disk.
C8_Witness ==
  \E c \in Callers :
    /\ Probed(c)
    /\ calls[c][1].err # Nil /\ ~AllSpace(calls[c][1].out)
    /\ calls[c][1].disk # Nil
    /\ pc[c] = "format"

\* C9: bindMount makes its second mount invocation only after the first has
\* succeeded; a failed bind step is returned unchanged after exactly one
\* invocation.
C9_BindMountOrdering ==
  \A c \in Callers :
    InBindMount(c)
      => /\ Len(calls[c]) <= 2
         /\ \A i \in 1..Len(calls[c]) : IsMount(calls[c][i])
         /\ Len(calls[c]) = 2 => calls[c][1].err = Nil
         /\ (Len(calls[c]) >= 1 /\ calls[c][1].err # Nil)
              => /\ pc[c] = "done"
                 /\ Len(calls[c]) = 1
                 /\ ret[c] = calls[c][1].err

\* A bindMount that returned after a failed bind step.
C9_Witness ==
  \E c \in Callers :
    /\ InBindMount(c) /\ pc[c] = "done"
    /\ Len(calls[c]) = 1
    /\ ret[c] = <<"mount failed: exit status 32">>

Range(s) == {s[i] : i \in 1..Len(s)}

\* C10 as stated: the second invocation of bindMount carries `remount` and
\* all the caller's options, with no filesystem type; the first carries
\* only the bind option.
C10_RemountAdded ==
  \A c \in Callers :
    (InBindMount(c) /\ Len(calls[c]) = 2)
      => /\ calls[c][1].opts = <<"bind">>
         /\ calls[c][2].fsType = Nil
         /\ Range(bindRemountOpts) \subseteq Range(calls[c][2].opts)
         /\ Range(opts[c]) \subseteq Range(calls[c][2].opts)

\* C10 amended: the second invocation carries exactly the options bindMount
\* was given, in their order, with nothing added, and no filesystem type;
\* the first carries only the bind option and no filesystem type.
C10_RemountPassesCallerOptions ==
  \A c \in Callers :
    (InBindMount(c) /\ Len(calls[c]) >= 1)
      => /\ calls[c][1].opts = <<"bind">>
         /\ calls[c][1].fsType = Nil
         /\ Len(calls[c]) = 2
              => /\ calls[c][2].fsType = Nil
                 /\ calls[c][2].opts = opts[c]

\* Both steps of a bindMount with two options have run.
C10_Witness ==
  \E c \in Callers :
    /\ InBindMount(c) /\ pc[c] = "done"
    /\ Len(calls[c]) = 2
    /\ opts[c] = <<"ro", "noatime">>
    /\ calls[c][1].err = Nil

\* C11: an I/O error on any read of getMounts (the read before the loop or
\* a loop read, at os.Open or while reading) ends the call: no read follows
\* it, and the call returns that very error with nil entries, never the
\* inconsistent-snapshot error.
C11_IOErrorSurfacedAtOnce ==
  \A c \in Callers :
    (InGetMounts(c) /\ ioErr[c] # Nil)
      => /\ pc[c] \in {"close", "done"}
         /\ \A i \in 1..(Len(reads[c]) - 1) : ~reads[c][i].failed
         /\ pc[c] = "close" => (LastRead(c).failed /\ rd[c].err = ioErr[c])
         /\ pc[c] = "done"
              => /\ ret[c] = ioErr[c]
                 /\ ret[c] # inconsistentErr
                 /\ retMps[c] = Nil

\* A loop read (the third read) failed and its error was returned.
C11_Witness ==
  \E c \in Callers :
    /\ InGetMounts(c) /\ pc[c] = "done"
    /\ Len(reads[c]) = 3 /\ LastRead(c).failed
    /\ ret[c] = <<"read /proc/self/mountinfo: input/output error">>

MkfsCalls(c) == {i \in 1..Len(calls[c]) : IsMkfs(calls[c][i])}
MountCalls(c) == {i \in 1..Len(calls[c]) : IsMount(calls[c][i])}
BlkidCalls(c) == {i \in 1..Len(calls[c]) : IsBlkid(calls[c][i])}

\* The probe of c reported no filesystem and the mkfs run that followed failed.
FormatFailed(c) ==
  /\ InFormatAndMount(c)
  /\ existingFormat[c] = Nil
  /\ \E i \in MkfsCalls(c) : calls[c][i].err # Nil

\* C12 as stated: after a failed mkfs run formatAndMount returns an error
\* worded "format failed" that carries the cause, makes no mount invocation
\* and no second mkfs run.
C12_FormatFailedError ==
  \A c \in Callers :
    FormatFailed(c)
      => /\ pc[c] = "done"
         /\ Contains(ret[c], <<"format failed">>)
              \/ Contains(ret[c], <<"format failed: ">>)
         /\ Contains(ret[c], LastCall(c).err)
         /\ MountCalls(c) = {}
         /\ Cardinality(MkfsCalls(c)) = 1

\* C12 amended: after a failed mkfs run formatAndMount returns the error of
\* that run itself, unchanged, makes no mount invocation and no second mkfs
\* run.
C12_FormatErrorReturnedRaw ==
  \A c \in Callers :
    FormatFailed(c)
      => /\ pc[c] = "done"
         /\ Len(calls[c]) = 2
         /\ ret[c] = calls[c][2].err
         /\ MountCalls(c) = {}
         /\ Cardinality(MkfsCalls(c)) = 1

\* A blank disk whose mkfs.xfs run failed.
C12_Witness ==
  \E c \in Callers :
    /\ FormatFailed(c) /\ pc[c] = "done"
    /\ calls[c][1].disk = Nil
    /\ calls[c][2].cmd = <<"mkfs.">> \o Xfs
    /\ ret[c] = <<"exit status 1">>

\* The type formatAndMount was asked for, before any default.
Requested(c) == args[c].fsType

\* C13: on a disk the probe reports unformatted, the effective type is the
\* requested one when it is not empty and "ext4" otherwise; the format
\* utility run is mkfs.<effective type>, and the mount after a successful
\* format gets that same, non-empty type.
C13_EffectiveFsType ==
  \A c \in Callers :
    (InFormatAndMount(c) /\ existingFormat[c] = Nil /\ Len(calls[c]) >= 2)
      => LET eff == IF Requested(c) # Nil THEN Requested(c) ELSE Ext4
         IN /\ calls[c][2].cmd = <<"mkfs.">> \o eff
            /\ Len(calls[c]) = 3
                 => /\ calls[c][2].err = Nil
                    /\ IsMount(calls[c][3])
                    /\ calls[c][3].fsType = eff
                    /\ calls[c][3].fsType # Nil

\* No type was requested; the disk was formatted and mounted as ext4.
C13_Witness ==
  \E c \in Callers :
    /\ InFormatAndMount(c) /\ pc[c] = "done"
    /\ Requested(c) = Nil /\ existingFormat[c] = Nil
    /\ Len(calls[c]) = 3
    /\ calls[c][2].cmd = <<"mkfs.", "e", "x", "t", "4">>
    /\ calls[c][3].fsType = Ext4

\* Handles of the mount table the getMounts of c holds open.
OpenHandles(c) == opened[c] - closed[c]

\* C14: every handle a read opens is released before that read returns, on
\* the success path and on the error paths: a getMounts call holds at most
\* one handle, only inside a read, and none once it has returned.
C14_HandlesReleased ==
  \A c \in Callers :
    InGetMounts(c)
      => /\ OpenHandles(c) \in {0, 1}
         /\ OpenHandles(c) = 1 <=> pc[c] \in {"read", "close"}
         /\ pc[c] = "done" => opened[c] = closed[c]

\* A getMounts that returned the I/O error of its second read, after
\* opening and closing two handles.
C14_Witness ==
  \E c \in Callers :
    /\ InGetMounts(c) /\ pc[c] = "done"
    /\ ret[c] = <<"read /proc/self/mountinfo: input/output error">>
    /\ opened[c] = 2 /\ closed[c] = 2

\* Read k of the getMounts of c succeeded with the fingerprint of read k - 1.
MatchesPrevious(c, k) ==
  /\ ~reads[c][k].failed
  /\ Fingerprint(reads[c][k].content) = Fingerprint(reads[c][k - 1].content)

\* C15: each loop read is compared with the read just before it.  The
\* first read whose fingerprint equals its predecessor's is the last read
\* of the call, and the call returns the entries that very read parsed; a
\* read that only equals an earlier one (A, B, A) does not end the call.
C15_ComparesWithPreviousRead ==
  \A c \in Callers :
    InGetMounts(c)
      => /\ \A k \in 2..Len(reads[c]) :
              MatchesPrevious(c, k)
                => /\ k = Len(reads[c])
                   /\ pc[c] \in {"close", "done"}
                   /\ pc[c] = "done"
                        => /\ ret[c] = Nil
                           /\ iter[c] = k - 2
                           /\ retMps[c] = ParseEntries(reads[c][k].content)
         /\ (pc[c] = "done" /\ ret[c] = Nil)
              => (Len(reads[c]) >= 2 /\ MatchesPrevious(c, Len(reads[c])))
         /\ (pc[c] = "done" /\ ret[c] = inconsistentErr)
              => /\ Len(reads[c]) = procMountsRetries + 1
                 /\ \A k \in 2..Len(reads[c]) : ~MatchesPrevious(c, k)

\* Contents A, B, B: success at the second iteration with B's entries.
C15_Witness ==
  \E c \in Callers :
    /\ SuccessfulGetMounts(c)
    /\ Len(reads[c]) = 3 /\ iter[c] = 1
    /\ reads[c][1].content = <<0>>
    /\ reads[c][2].content = <<1>> /\ reads[c][3].content = <<1>>
    /\ retMps[c] = <<Info(1)>>

\* Contents A, B, A, B: no two consecutive reads agree and the call fails.
C15_AlternatingFails ==
  \E c \in Callers :
    /\ InGetMounts(c) /\ pc[c] = "done" /\ ret[c] = inconsistentErr
    /\ reads[c][1].content = <<0>> /\ reads[c][2].content = <<1>>
    /\ reads[c][3].content = <<0>> /\ reads[c][4].content = <<1>>

\* The reads (calls of readProcMounts) the getMounts of c has started: those
\* that opened the table and the one whose os.Open failed.
ReadsStarted(c) == opened[c] + (IF ioErr[c] \in OpenErrs \ {Nil} THEN 1 ELSE 0)

ReadBounds(c) ==
  /\ ReadsStarted(c) <= procMountsRetries + 1
  /\ Len(reads[c]) <= procMountsRetries + 1
  /\ pc[c] = "done" => ReadsStarted(c) >= 1
  /\ (pc[c] = "done" /\ ret[c] = Nil) => (ReadsStarted(c) >= 2 /\ Len(reads[c]) >= 2)

\* C16: every getMounts call returns, however the table changes, after at
\* least one and at most procMountsRetries + 1 reads, and it returns
\* entries only after at least two reads.
C16_GetMountsTerminates ==
  /\ \A c \in Callers : [](InGetMounts(c) => <>(pc[c] = "done"))
  /\ [](\A c \in Callers : InGetMounts(c) => ReadBounds(c))

\* Four reads, the table changed before each of the last three, then the
\* call returned.
C16_Witness ==
  \E c \in Callers :
    /\ InGetMounts(c) /\ pc[c] = "done"
    /\ ReadsStarted(c) = procMountsRetries + 1
    /\ \A k \in 2..Len(reads[c]) : reads[c][k].content # reads[c][k - 1].content
    /\ Len(reads[c]) = 4

\* C17: one formatAndMount runs the probe once and first, then at most one
\* mkfs run, then at most one mount; the mount never precedes the success
\* of a format the invocation performs, and nothing follows a failed mkfs
\* run or a failed mount.
C17_ProbeFormatMountOrder ==
  \A c \in Callers :
    InFormatAndMount(c)
      => LET n == Len(calls[c])
         IN /\ n <= 3
            /\ BlkidCalls(c) = (IF n >= 1 THEN {1} ELSE {})
            /\ MkfsCalls(c) \subseteq {2}
            /\ MountCalls(c) \subseteq ({n} \ {1})
            /\ pc[c] = "done" => n >= 2
            /\ MountCalls(c) # {} => pc[c] = "done"
            /\ MkfsCalls(c) # {} => existingFormat[c] = Nil
            /\ 3 \in MountCalls(c) => (IsMkfs(calls[c][2]) /\ calls[c][2].err = Nil)
            /\ 2 \in MountCalls(c) => existingFormat[c] # Nil
            /\ \A i \in 2..n : calls[c][i].err # Nil => (i = n /\ pc[c] = "done")

\* Probe, successful mkfs run, failed mount, return.
C17_Witness ==
  \E c \in Callers :
    /\ InFormatAndMount(c) /\ pc[c] = "done"
    /\ Len(calls[c]) = 3
    /\ IsBlkid(calls[c][1]) /\ IsMkfs(calls[c][2]) /\ IsMount(calls[c][3])
    /\ calls[c][3].err # Nil /\ ret[c] = calls[c][3].err

\* C18: with two concurrent formatAndMount invocations on an initially
\* blank device, no invocation runs the format utility on the device once
\* the other has formatted it.  Stated for invocations whose blkid run
\* exited with success, so that only the interleaving can break it.
C18_FormattedAtMostOnce ==
  \A c \in Callers :
    (InFormatAndMount(c) /\ Len(calls[c]) >= 2 /\ calls[c][1].err = Nil)
      => \A i \in MkfsCalls(c) : calls[c][i].disk = calls[c][1].disk

\* C19: when the probe reports an existing type E, the mount is invoked
\* with the requested fsType exactly as given ("" or a type other than E
\* included), and a successful mount makes formatAndMount return nil even
\* when the requested type differs from E.
C19_MountsExistingAsRequested ==
  \A c \in Callers :
    (InFormatAndMount(c) /\ Probed(c) /\ existingFormat[c] # Nil /\ Len(calls[c]) >= 2)
      => /\ IsMount(calls[c][2])
         /\ calls[c][2].fsType = Requested(c)
         /\ (pc[c] = "done" /\ calls[c][2].err = Nil => ret[c] = Nil)

C19_Witness ==
  \E c \in Callers :
    /\ InFormatAndMount(c) /\ pc[c] = "done"
    /\ existingFormat[c] = Xfs /\ Requested(c) = Ext4
    /\ Len(calls[c]) = 2 /\ IsMount(calls[c][2])
    /\ calls[c][2].fsType = Ext4 /\ calls[c][2].err = Nil
    /\ ret[c] = Nil

\* C20: every mount invocation of formatAndMount is given the caller's
\* options in their order followed by exactly one extra entry, "defaults".
C20_OptionsThenDefaults ==
  \A c \in Callers : \A i \in MountCalls(c) :
    InFormatAndMount(c) =>
      LET given == args[c].opts
          o     == calls[c][i].opts
      IN  /\ Len(o) = Len(given) + 1
          /\ \A k \in 1..Len(given) : o[k] = given[k]
          /\ o[Len(o)] = "defaults"

C20_Witness ==
  \E c \in Callers : \E i \in MountCalls(c) :
    /\ InFormatAndMount(c)
    /\ args[c].opts = <<"ro", "noatime">>
    /\ calls[c][i].opts = <<"ro", "noatime", "defaults">>

====
